---- MODULE Spec2Model ----
(***************************************************************************)
(* Model of lib/core/threads.py: runThreads (the supervisor), the worker   *)
(* threads it starts, exceptionHandledFunction (the adapter run by every   *)
(* worker thread) and the process-wide state they share in kb and conf.    *)
(*                                                                         *)
(* One behaviour is a sequence of runThreads calls made by one caller.     *)
(* The supervisor's position in runThreads is pc; a worker thread is one   *)
(* entry of threads; worker threads left alive by a call that has ended    *)
(* (they are daemon threads) are counted in orphans and keep running.      *)
(* Time is a clock in whole time units (time.time()).                      *)
(***************************************************************************)
EXTENDS Integers, Sequences, FiniteSets

(* ---- bounds of the model ---- *)

\* the caller passes numThreads in -MaxBelowZero..MaxNumThreads
MaxNumThreads == 2

MaxBelowZero == 1

\* number of runThreads calls in one behaviour
MaxRuns == 2

\* last value of the clock
MaxTime == 3

\* settings.MAX_NUMBER_OF_THREADS (imported at threads.py:29; sqlmap sets 10,
\* the model scales it down so that a request above it stays small)
MAX_NUMBER_OF_THREADS == 1

\* number of locks in kb.locks
MaxLocks == 2

(* ---- program constants ---- *)

\* the "< 1" of threads.py:204, in time units
EscalationWindow == 1

(* ---- values ---- *)

\* what a call of threadFunction, or of a collaborator, can raise
Exceptions ==
    {"KeyboardInterrupt", "UserQuit", "SkipTarget", "Connection", "Value", "Sqlite", "Other"}

\* how a call of threadFunction ends
WorkResults == {"ok"} \cup Exceptions

\* answers readInput can give to the thread-count prompt
Answers ==
    { <<>>, <<"x">>, <<"!">>, <<"0">>, <<"1">>, <<"2">>, <<"0", "2">>, <<"1", "0">>,
      <<"0", "!">>, <<"2", "!">> }

\* no answer of readInput is waiting to be looked at
NoAnswer == << "-" >>

(* ---- the prompt's answer: threads.py:141-154 ---- *)

DigitChars == {"0", "1", "2", "3", "4", "5", "6", "7", "8", "9"}

DigitValue(c) ==
    CASE c = "0" -> 0 [] c = "1" -> 1 [] c = "2" -> 2 [] c = "3" -> 3 [] c = "4" -> 4
      [] c = "5" -> 5 [] c = "6" -> 6 [] c = "7" -> 7 [] c = "8" -> 8 [] c = "9" -> 9

\* choice.endswith('!')
EndsWithBang(s) == Len(s) > 0 /\ s[Len(s)] = "!"

\* choice[:-1]
DropLast(s) == SubSeq(s, 1, Len(s) - 1)

\* isDigit(value): one or more decimal digits and nothing else
isDigit(s) == Len(s) > 0 /\ \A i \in 1 .. Len(s) : s[i] \in DigitChars

\* int(choice) for a string of digits
RECURSIVE int(_)
int(s) == IF Len(s) = 0 THEN 0 ELSE 10 * int(DropLast(s)) + DigitValue(s[Len(s)])

\* Stripped without lines 144-146: the marker stays in the text
StrippedKeepsMarker(choice) == choice

\* the answer after lines 144-146: the text left and skipThreadCheck
Stripped(choice) == IF EndsWithBang(choice) THEN DropLast(choice) ELSE choice

skipThreadCheck(choice) == EndsWithBang(choice)

\* line 149: the request is refused
AboveMax(choice) == int(Stripped(choice)) > MAX_NUMBER_OF_THREADS /\ ~skipThreadCheck(choice)

\* the answer ends the loop at line 154
Accepted(choice) == choice # <<>> /\ isDigit(Stripped(choice)) /\ ~AboveMax(choice)

\* the largest number of worker threads a call can start
MaxWorkers ==
    LET m == { int(Stripped(a)) : a \in { b \in Answers : Accepted(b) } } \cup {MaxNumThreads}
    IN  CHOOSE x \in m : \A y \in m : y <= x

\* thread number numThread of the loop at threads.py:175
WorkerIds == 0 .. (MaxWorkers - 1)

\* str(numThread), the name given to the thread at line 176
ThreadName(w) == <<"0", "1", "2", "3", "4", "5", "6", "7", "8", "9">>[w + 1]

\* the threads that can call threadFunction, by name
Contexts == {"main"} \cup { ThreadName(w) : w \in WorkerIds }

\* how a worker thread has ended: threadFunction returned; it raised UserQuit or
\* SkipTarget; it raised KeyboardInterrupt; it raised something else and line 108
\* logged it; it raised something else and nothing was logged
EndStates == {"returned", "quit", "interrupted", "reported", "dropped"}

\* the locks of kb.locks, in the order kb.locks.values() gives them
LockIds == 1 .. MaxLocks

VARIABLES
    multipleCtrlC,      \* kb.multipleCtrlC
    threadContinue,     \* kb.threadContinue
    threadException,    \* kb.threadException
    multiThreadMode,    \* kb.multiThreadMode
    lastCtrlCTime,      \* kb.lastCtrlCTime; 0 stands for None (never set)
    confThreads,        \* conf.threads
    hashDB,             \* conf.hashDB is configured
    now,                \* time.time()
    pc,                 \* the supervisor's position in runThreads
    numThreads,         \* argument / local numThreads
    forwardException,   \* argument forwardException
    cleanupFunction,    \* argument cleanupFunction is given
    threads,            \* worker threads of the last call: "none", "alive" or an end state
    numThread,          \* loop variable of threads.py:175
    pending,            \* the exception in flight in the supervisor, "none" if none
    orphans,            \* worker threads of earlier calls that are still alive
    runs,               \* number of runThreads calls made
    outcome,            \* how the last call left: "none" (running), "return" or what it raised
    cancel,             \* how this call took cancellation: "none", "first", "window", "second"
    caught,             \* what the outer except clauses of this call caught ("none": nothing)
    elapsed,            \* time.time() - kb.lastCtrlCTime when this call last took a
                        \* cancellation; -1 when it took none or kb.lastCtrlCTime was unset
    cleanupCalls,       \* calls of cleanupFunction by this call
    flushFailed,        \* conf.hashDB.flush raised in this call
    workCalls,          \* calls of threadFunction by this call, per thread name
    workResult,         \* how the synchronous threadFunction call ended ("none": not run)
    prompted,           \* this call asked for the number of threads
    answered,           \* the answer readInput returned (line 140) that the prompt loop
                        \* has yet to look at; << "-" >> when there is none
    closeCalls,         \* calls of conf.hashDB.close() by this call, per thread name
    active,             \* runThreads invocations that have entered and not yet left
    teardown,           \* the steps of the finally clause this call has started, in order
    lockLog,            \* what the loop of lines 251-256 did with each lock, kept while
                        \* the finally clause runs: "none" (not reached), "unlocked"
                        \* (locked() was false), "released", "taken" (released while the
                        \* thread holding it runs), "failed" (release() raised)
    log                 \* logger entries made by the threads of this call: <<thread name, level>>

vars ==
    << multipleCtrlC, threadContinue, threadException, multiThreadMode, lastCtrlCTime,
       confThreads, hashDB, now, pc, numThreads, forwardException,
       cleanupFunction, threads, numThread, pending, orphans, runs, outcome,
       cancel, caught, elapsed, cleanupCalls, flushFailed, workCalls, workResult,
       prompted, answered, closeCalls, active, teardown, lockLog, log >>

kbFlags == << multipleCtrlC, threadContinue, threadException, multiThreadMode >>

args == << numThreads, forwardException, cleanupFunction >>

conf == << confThreads, hashDB >>

AliveWorkers == { w \in WorkerIds : threads[w] = "alive" }

\* the list threads of threads.py:121: the threads started by this call
started == { w \in WorkerIds : threads[w] # "none" }

\* threading.active_count() > 1: some thread besides the main thread is alive
ActiveCountAboveOne == AliveWorkers # {} \/ orphans > 0

(* ---- initial state: no call made yet ---- *)

Init ==
    /\ multipleCtrlC = FALSE
    /\ threadContinue = TRUE
    /\ threadException = FALSE
    /\ multiThreadMode = FALSE
    /\ lastCtrlCTime = 0
    /\ confThreads = 1
    /\ hashDB \in BOOLEAN
    /\ now = 1
    /\ pc = "idle"
    /\ numThreads = 1
    /\ forwardException = TRUE
    /\ cleanupFunction = FALSE
    /\ threads = [w \in WorkerIds |-> "none"]
    /\ numThread = 0
    /\ pending = "none"
    /\ orphans = 0
    /\ runs = 0
    /\ outcome = "none"
    /\ cancel = "none"
    /\ caught = "none"
    /\ elapsed = -1
    /\ cleanupCalls = 0
    /\ flushFailed = FALSE
    /\ workCalls = [c \in Contexts |-> 0]
    /\ workResult = "none"
    /\ prompted = FALSE
    /\ answered = NoAnswer
    /\ closeCalls = [c \in Contexts |-> 0]
    /\ active = 0
    /\ teardown = << >>
    /\ lockLog = [l \in LockIds |-> "none"]
    /\ log = {}

(* ---- the two paths after entry and after the prompt, lines 156-172 ---- *)

\* Dispatch with "numThreads == 1" as the test for the synchronous path
DispatchOnlyForOne(n) ==
    IF n # 1
    THEN /\ multiThreadMode' = TRUE
         /\ pc' = "spawn"
         /\ workCalls' = [c \in Contexts |-> 0]
    ELSE /\ multiThreadMode' = FALSE
         /\ pc' = "single"
         /\ workCalls' = [c \in Contexts |-> IF c = "main" THEN 1 ELSE 0]

\* Dispatch without line 172: kb.multiThreadMode is left as it was
DispatchFlagUnset(n) ==
    IF n > 1
    THEN /\ multiThreadMode' = FALSE
         /\ pc' = "spawn"
         /\ workCalls' = [c \in Contexts |-> 0]
    ELSE /\ multiThreadMode' = FALSE
         /\ pc' = "single"
         /\ workCalls' = [c \in Contexts |-> IF c = "main" THEN 1 ELSE 0]

\* numThreads > 1 (line 160): kb.multiThreadMode = True and the start loop;
\* otherwise _threadFunction() is called on the caller's own thread (line 166)
Dispatch(n) ==
    IF n > 1
    THEN /\ multiThreadMode' = TRUE
         /\ pc' = "spawn"
         /\ workCalls' = [c \in Contexts |-> 0]
    ELSE /\ multiThreadMode' = FALSE
         /\ pc' = "single"
         /\ workCalls' = [c \in Contexts |-> IF c = "main" THEN 1 ELSE 0]

(* ---- runThreads: entry, lines 120-137 ---- *)

\* EntryReset without line 130: kb.multipleCtrlC is left as the last call left it
EntryResetKeepsMultipleCtrlC ==
    /\ multipleCtrlC' = multipleCtrlC
    /\ threadContinue' = TRUE
    /\ threadException' = FALSE

\* lines 130-132 (line 134, kb.multiThreadMode = False, is in the two branches of
\* Call, the second of which goes on to line 172)
EntryReset ==
    /\ multipleCtrlC' = FALSE
    /\ threadContinue' = TRUE
    /\ threadException' = FALSE

\* CallerIdle for a caller that calls runThreads whenever it likes, also from
\* threadFunction or from another thread while a call is in progress
CallerAnyTime == TRUE

\* the caller's discipline: runThreads is called only when no call of it is in
\* progress (runThreads itself has no guard)
CallerIdle == pc = "idle"

\* the caller calls runThreads(n, threadFunction, cleanup, fwd, choice); ask is the
\* last conjunct of line 137, which is state of the caller (kb.injection.data)
Call(n, cleanup, fwd, choice, ask) ==
    /\ CallerIdle
    /\ runs < MaxRuns
    /\ runs' = runs + 1
    /\ active' = active + 1
    /\ numThreads' = n
    /\ cleanupFunction' = cleanup
    /\ forwardException' = fwd
    \* worker threads the previous call left alive go on running
    /\ orphans' = orphans + Cardinality(AliveWorkers)
    /\ threads' = [w \in WorkerIds |-> "none"]
    /\ numThread' = 0
    /\ EntryReset
    \* line 137
    /\ IF choice /\ confThreads = 1 /\ n = 1 /\ ask
       THEN /\ pc' = "prompt"
            /\ prompted' = TRUE
            /\ multiThreadMode' = FALSE
            /\ workCalls' = [c \in Contexts |-> 0]
       ELSE /\ prompted' = FALSE
            /\ Dispatch(n)
    /\ pending' = "none"
    /\ outcome' = "none"
    /\ cancel' = "none"
    /\ caught' = "none"
    /\ elapsed' = -1
    /\ cleanupCalls' = 0
    /\ flushFailed' = FALSE
    /\ teardown' = << >>
    /\ lockLog' = [l \in LockIds |-> "none"]
    /\ workResult' = "none"
    /\ answered' = NoAnswer
    /\ closeCalls' = [c \in Contexts |-> 0]
    /\ log' = {}
    /\ UNCHANGED << lastCtrlCTime, conf, now >>

(* ---- the interactive prompt, lines 138-158 ---- *)

\* line 140: readInput returns choice
ReadInput(choice) ==
    /\ pc = "prompt"
    /\ answered = NoAnswer
    /\ answered' = choice
    /\ UNCHANGED << kbFlags, lastCtrlCTime, conf, now, pc, args, threads, numThread, pending,
                    orphans, runs, active, outcome, cancel, caught, elapsed, cleanupCalls,
                    closeCalls, flushFailed, teardown, lockLog, workCalls, workResult,
                    prompted, log >>

\* lines 141-154 for the answer choice, then lines 156-172 when it is accepted
PromptTurn(choice) ==
    IF Accepted(choice)
    THEN \* line 153, then lines 156-172
         /\ confThreads' = int(Stripped(choice))
         /\ numThreads' = int(Stripped(choice))
         /\ Dispatch(int(Stripped(choice)))
         /\ UNCHANGED log
    ELSE \* the loop goes round; line 151 logs when the request is above the maximum
         /\ log' = IF choice # <<>> /\ isDigit(Stripped(choice)) /\ AboveMax(choice)
                   THEN log \cup {<<"main", "critical">>}
                   ELSE log
         /\ UNCHANGED << confThreads, numThreads, multiThreadMode, workCalls, pc >>

\* one turn of the while loop of lines 138-154 with the answer readInput gave
Prompt ==
    /\ pc = "prompt"
    /\ answered # NoAnswer
    /\ PromptTurn(answered)
    /\ answered' = NoAnswer
    /\ UNCHANGED << multipleCtrlC, threadContinue, threadException, lastCtrlCTime, hashDB,
                    now, forwardException, cleanupFunction, threads, numThread, pending,
                    orphans, runs, active, outcome, cancel, caught, elapsed, cleanupCalls,
                    closeCalls, flushFailed, teardown, lockLog, workResult, prompted >>

(* ---- the supervisor's exception handlers, lines 198-243 ---- *)

\* Escalates with a window that is too wide
EscalatesWide(last, t) == last # 0 /\ t - last < EscalationWindow + 2

\* Escalates with "<=" for "<"
EscalatesInclusive(last, t) == last # 0 /\ t - last <= EscalationWindow

\* line 204: kb.lastCtrlCTime and (time.time() - kb.lastCtrlCTime < 1)
Escalates(last, t) == last # 0 /\ t - last < EscalationWindow

\* lines 198-211: except (KeyboardInterrupt, SqlmapUserQuitException) as ex, up to the wait
HandleCancel(ex) ==
    /\ threadContinue' = FALSE
    /\ threadException' = TRUE
    /\ caught' = ex
    /\ elapsed' = IF lastCtrlCTime = 0 THEN -1 ELSE now - lastCtrlCTime
    /\ IF Escalates(lastCtrlCTime, now)
       THEN \* lines 205-206: raise SqlmapUserQuitException(...), then the finally clause
            /\ multipleCtrlC' = TRUE
            /\ pending' = "UserQuitMulti"
            /\ cancel' = "window"
            /\ pc' = "finally"
            /\ UNCHANGED lastCtrlCTime
       ELSE \* line 208, then the wait of lines 212-214
            /\ lastCtrlCTime' = now
            /\ pending' = ex
            /\ cancel' = "first"
            /\ pc' = "cancelwait"
            /\ UNCHANGED multipleCtrlC
    /\ UNCHANGED << multiThreadMode, log >>

\* HandleConnectionValue with the "if forwardException: raise" of the clause above it
HandleConnectionValueForwards(ex) ==
    /\ threadException' = TRUE
    /\ log' = log \cup {<<"main", "error">>}
    /\ caught' = ex
    /\ pending' = IF forwardException THEN ex ELSE "none"
    /\ pc' = "finally"
    /\ UNCHANGED << multipleCtrlC, threadContinue, multiThreadMode, lastCtrlCTime, cancel,
                    elapsed >>

\* lines 223-229: except (SqlmapConnectionException, SqlmapValueException) as ex
HandleConnectionValue(ex) ==
    /\ threadException' = TRUE
    /\ log' = log \cup {<<"main", "error">>}
    /\ caught' = ex
    /\ pending' = "none"
    /\ pc' = "finally"
    /\ UNCHANGED << multipleCtrlC, threadContinue, multiThreadMode, lastCtrlCTime, cancel,
                    elapsed >>

\* HandleException with a raise at the end of the clause
HandleExceptionReraises(ex) ==
    /\ caught' = ex
    /\ threadException' = TRUE
    /\ log' = log \cup {<<"main", "error">>}
    /\ pending' = ex
    /\ pc' = "finally"
    /\ UNCHANGED << multipleCtrlC, threadContinue, multiThreadMode, lastCtrlCTime, cancel,
                    elapsed >>

\* lines 231-243: except Exception as ex
HandleException(ex) ==
    /\ caught' = ex
    /\ IF ~multipleCtrlC
       THEN IF ex = "Sqlite"
            THEN \* line 236: raise
                 /\ pending' = "Sqlite"
                 /\ UNCHANGED << threadException, log >>
            ELSE \* lines 240-243
                 /\ threadException' = TRUE
                 /\ log' = log \cup {<<"main", "error">>}
                 /\ pending' = "none"
       ELSE /\ pending' = "none"
            /\ UNCHANGED << threadException, log >>
    /\ pc' = "finally"
    /\ UNCHANGED << multipleCtrlC, threadContinue, multiThreadMode, lastCtrlCTime, cancel,
                    elapsed >>

\* the except clause that takes ex when it is raised inside the outer try
Handle(ex) ==
    CASE ex \in {"KeyboardInterrupt", "UserQuit"} -> HandleCancel(ex)
      [] ex \in {"Connection", "Value"} -> HandleConnectionValue(ex)
      [] OTHER -> HandleException(ex)

\* readInput (line 140) raises ex instead of returning an answer
PromptRaises(ex) ==
    /\ pc = "prompt"
    /\ answered = NoAnswer
    /\ Handle(ex)
    /\ UNCHANGED << conf, now, args, threads, numThread, orphans, runs, active, outcome,
                    cleanupCalls, closeCalls, flushFailed, teardown, lockLog, workCalls, workResult, prompted, answered >>

\* Ctrl+C reaches the main thread while it starts the threads or waits in the
\* loop of lines 190-196
Interrupt ==
    /\ pc \in {"spawn", "join"}
    /\ HandleCancel("KeyboardInterrupt")
    /\ UNCHANGED << conf, now, args, threads, numThread, orphans, runs, active, outcome,
                    cleanupCalls, closeCalls, flushFailed, teardown, lockLog, workCalls, workResult, prompted, answered >>

\* Reraised without the test of forwardException
ReraisedAlways(fwd, ex) == ex

\* lines 220-221: if forwardException: raise
Reraised(fwd, ex) == IF fwd THEN ex ELSE "none"

\* WaitLoopEnds without the test of active_count()
WaitLoopEndsAtOnce == TRUE

\* lines 213-214 end: no thread but the main one is left
WaitLoopEnds == ~ActiveCountAboveOne

\* the wait of lines 212-214 ends, then lines 220-221
WaitDone ==
    /\ pc = "cancelwait"
    /\ WaitLoopEnds
    /\ pending' = Reraised(forwardException, pending)
    /\ pc' = "finally"
    /\ UNCHANGED << kbFlags, lastCtrlCTime, conf, now, args, threads, numThread, orphans,
                    runs, active, outcome, cancel, caught, elapsed, cleanupCalls, closeCalls, flushFailed, teardown, lockLog, workCalls,
                    workResult, prompted, answered, log >>

\* SecondInterrupt with kb.lastCtrlCTime = time.time() before the raise
SecondInterruptStamps ==
    /\ pc = "cancelwait"
    /\ multipleCtrlC' = TRUE
    /\ lastCtrlCTime' = now
    /\ pending' = "ThreadException"
    /\ cancel' = "second"
    /\ elapsed' = now - lastCtrlCTime
    /\ pc' = "finally"
    /\ UNCHANGED << threadContinue, threadException, multiThreadMode, conf,
                    now, args, threads, numThread, orphans, runs, active, outcome, caught,
                    cleanupCalls, closeCalls, flushFailed, teardown, lockLog, workCalls,
                    workResult, prompted, answered, log >>

\* SecondInterrupt without lines 216-218: the second Ctrl+C is swallowed and the wait goes on
SecondInterruptKeepsWaiting ==
    /\ pc = "cancelwait"
    /\ cancel' = "second"
    /\ elapsed' = now - lastCtrlCTime
    /\ UNCHANGED << kbFlags, pc, pending, lastCtrlCTime, conf,
                    now, args, threads, numThread, orphans, runs, active, outcome, caught,
                    cleanupCalls, closeCalls, flushFailed, teardown, lockLog, workCalls, workResult, prompted, answered, log >>

\* lines 216-218: Ctrl+C during the wait
SecondInterrupt ==
    /\ pc = "cancelwait"
    /\ multipleCtrlC' = TRUE
    /\ pending' = "ThreadException"
    /\ cancel' = "second"
    /\ elapsed' = now - lastCtrlCTime
    /\ pc' = "finally"
    /\ UNCHANGED << threadContinue, threadException, multiThreadMode, lastCtrlCTime, conf,
                    now, args, threads, numThread, orphans, runs, active, outcome, caught,
                    cleanupCalls, closeCalls, flushFailed, teardown, lockLog, workCalls, workResult, prompted, answered, log >>

(* ---- _threadFunction, lines 123-128 ---- *)

\* CloseCalled with the close after the call instead of in a finally clause
CloseCalledOnReturn(configured, res) == IF configured /\ res = "ok" THEN 1 ELSE 0

\* lines 126-128: the finally clause calls conf.hashDB.close() when conf.hashDB is
\* set, however threadFunction ended (res)
CloseCalled(configured, res) == IF configured THEN 1 ELSE 0

(* ---- the synchronous path, lines 164-170 ---- *)

\* SingleRaises without the except and finally clauses of lines 167-170
SingleRaisesAll(res) == IF res = "ok" THEN "none" ELSE res

\* SingleRaises with a finally clause that lets KeyboardInterrupt through
SingleRaisesInterrupt(res) == IF res = "KeyboardInterrupt" THEN res ELSE "none"

\* what leaves the try of lines 165-170 when _threadFunction ended with res:
\* "return" in the finally clause discards whatever was raised
SingleRaises(res) == "none"

\* threadFunction, called on the caller's thread, ends with res
SingleWork(res) ==
    /\ pc = "single"
    /\ workResult' = res
    /\ closeCalls' = [closeCalls EXCEPT !["main"] = @ + CloseCalled(hashDB, res)]
    /\ pending' = SingleRaises(res)
    /\ pc' = "finally"
    /\ UNCHANGED << kbFlags, lastCtrlCTime, conf, now, args, threads, numThread, orphans,
                    runs, active, outcome, cancel, caught, elapsed, cleanupCalls, flushFailed, teardown, lockLog, workCalls,
                    prompted, answered, log >>

(* ---- starting the threads, lines 175-187 ---- *)

\* SpawnStart with target=exceptionHandledFunction(_threadFunction): threadFunction
\* is called on the main thread while the Thread object is made
SpawnStartTargetsMain ==
    /\ pc = "spawn"
    /\ numThread < numThreads
    /\ threads' = [threads EXCEPT ![numThread] = "alive"]
    /\ workCalls' = [workCalls EXCEPT !["main"] = @ + 1]
    /\ numThread' = numThread + 1
    /\ pc' = IF numThread + 1 < numThreads THEN "spawn" ELSE "join"
    /\ UNCHANGED << kbFlags, lastCtrlCTime, conf, now, args, pending, orphans, runs, active,
                    outcome, cancel, caught, elapsed, cleanupCalls, closeCalls, flushFailed,
                    teardown, lockLog, workResult, prompted, answered, log >>

\* thread.start() succeeds for thread number numThread: the new thread runs
\* exceptionHandledFunction(_threadFunction), which calls threadFunction
SpawnStart ==
    /\ pc = "spawn"
    /\ numThread < numThreads
    /\ threads' = [threads EXCEPT ![numThread] = "alive"]
    /\ workCalls' = [workCalls EXCEPT ![ThreadName(numThread)] = @ + 1]
    /\ numThread' = numThread + 1
    /\ pc' = IF numThread + 1 < numThreads THEN "spawn" ELSE "join"
    /\ UNCHANGED << kbFlags, lastCtrlCTime, conf, now, args, pending, orphans, runs, active,
                    outcome, cancel, caught, elapsed, cleanupCalls, closeCalls, flushFailed, teardown, lockLog, workResult,
                    prompted, answered, log >>

\* SpawnFails without line 184: the failure is not logged
SpawnFailsSilent ==
    /\ pc = "spawn"
    /\ numThread < numThreads
    /\ pc' = "join"
    /\ UNCHANGED << kbFlags, lastCtrlCTime, conf, now, args, threads, numThread, pending,
                    orphans, runs, active, outcome, cancel, caught, elapsed, cleanupCalls,
                    closeCalls, flushFailed, teardown, lockLog, workCalls, workResult,
                    prompted, answered, log >>

\* thread.start() raises: lines 182-185, logger.critical and break
SpawnFails ==
    /\ pc = "spawn"
    /\ numThread < numThreads
    /\ log' = log \cup {<<"main", "critical">>}
    /\ pc' = "join"
    /\ UNCHANGED << kbFlags, lastCtrlCTime, conf, now, args, threads, numThread, pending,
                    orphans, runs, active, outcome, cancel, caught, elapsed, cleanupCalls, closeCalls, flushFailed, teardown, lockLog,
                    workCalls, workResult, prompted, answered >>

(* ---- waiting for the threads, lines 189-196 ---- *)

\* JoinLoopEnds with a loop that never sets alive to False
JoinLoopEndsNever == FALSE

\* JoinLoopEnds without the test of is_alive()
JoinLoopEndsAtOnce == TRUE

\* the while loop ends: no thread of the list is alive
JoinLoopEnds == \A w \in started : threads[w] # "alive"

JoinDone ==
    /\ pc = "join"
    /\ JoinLoopEnds
    /\ pending' = "none"
    /\ pc' = "finally"
    /\ UNCHANGED << kbFlags, lastCtrlCTime, conf, now, args, threads, numThread, orphans,
                    runs, active, outcome, cancel, caught, elapsed, cleanupCalls, closeCalls, flushFailed, teardown, lockLog, workCalls,
                    workResult, prompted, answered, log >>

(* ---- a worker thread: exceptionHandledFunction, lines 96-111 ---- *)

\* line 106: the failure is reported
Reported(res) ==
    /\ threadContinue
    /\ ~multipleCtrlC
    /\ res \notin {"UserQuit", "SkipTarget"}

\* how the thread ends when threadFunction ended with res
EndState(res) ==
    CASE res = "ok" -> "returned"
      [] res = "KeyboardInterrupt" -> "interrupted"
      [] res \in {"UserQuit", "SkipTarget"} -> "quit"
      [] OTHER -> IF Reported(res) THEN "reported" ELSE "dropped"

\* lines 99-102: KeyboardInterrupt sets the two flags; the raise that follows ends
\* the thread and reaches no other thread
AdapterFlags(res) ==
    IF res = "KeyboardInterrupt"
    THEN /\ threadContinue' = FALSE
         /\ threadException' = TRUE
    ELSE UNCHANGED << threadContinue, threadException >>

\* AdapterLog without the thread's name: the entry is made under the main thread's
AdapterLogUnnamed(who, res) ==
    IF res \notin {"ok", "KeyboardInterrupt"} /\ Reported(res)
    THEN {<<"main", "error">>}
    ELSE {}

\* lines 103-108: the entry logger.error receives from the thread named who
AdapterLog(who, res) ==
    IF res \notin {"ok", "KeyboardInterrupt"} /\ Reported(res)
    THEN {<<who, "error">>}
    ELSE {}

\* worker thread w of the last call ends: its threadFunction returned or raised res
WorkerEnd(w, res) ==
    /\ threads[w] = "alive"
    /\ threads' = [threads EXCEPT ![w] = EndState(res)]
    /\ AdapterFlags(res)
    /\ closeCalls' = [closeCalls EXCEPT ![ThreadName(w)] = @ + CloseCalled(hashDB, res)]
    /\ log' = log \cup AdapterLog(ThreadName(w), res)
    /\ UNCHANGED << multipleCtrlC, multiThreadMode, lastCtrlCTime, conf, now, pc, args,
                    numThread, pending, orphans, runs, active, outcome, cancel, caught, elapsed,
                    cleanupCalls, flushFailed, teardown, lockLog, workCalls, workResult, prompted, answered >>

\* a worker thread left alive by an earlier call ends (log keeps the entries of
\* the threads of this call only)
OrphanEnd(res) ==
    /\ orphans > 0
    /\ orphans' = orphans - 1
    /\ AdapterFlags(res)
    /\ UNCHANGED << multipleCtrlC, multiThreadMode, lastCtrlCTime, conf, now, pc, args,
                    threads, numThread, pending, runs, active, outcome, cancel, caught, elapsed,
                    cleanupCalls, closeCalls, flushFailed, teardown, lockLog, workCalls, workResult, prompted, answered, log >>

(* ---- the finally clause, lines 245-262 ---- *)

\* ResetFlags without line 248: kb.threadException is left as it was
ResetFlagsKeepsException ==
    /\ multiThreadMode' = FALSE
    /\ threadContinue' = TRUE
    /\ threadException' = threadException

\* lines 246-248
ResetFlags ==
    /\ multiThreadMode' = FALSE
    /\ threadContinue' = TRUE
    /\ threadException' = FALSE

\* ReleaseLocks without the try of lines 253-256: the loop ends at the first
\* release() that raises
ReleaseLocksUntilFailure(held, fails, running) ==
    [l \in LockIds |->
        IF \E k \in held \cap fails : k < l THEN "none"
        ELSE IF l \notin held THEN "unlocked"
        ELSE IF l \in fails THEN "failed"
        ELSE IF l \in running THEN "taken"
        ELSE "released"]

\* lines 251-256: every lock is looked at; release() is called on each one that is
\* locked (held), and when it raises (fails) the bare except discards the exception.
\* release() does not ask who took the lock: a lock whose holder is a thread that
\* is still running (running) is released like any other ("taken")
ReleaseLocks(held, fails, running) ==
    [l \in LockIds |->
        IF l \notin held THEN "unlocked"
        ELSE IF l \in fails THEN "failed"
        ELSE IF l \in running THEN "taken"
        ELSE "released"]

\* the locks that can be held by a thread still running inside threadFunction when
\* the finally clause starts: none unless such a thread exists
HeldByRunning(held) == IF ActiveCountAboveOne THEN SUBSET held ELSE {{}}

\* lines 246-256. The locks are taken and released by threadFunction: held is the
\* set lock.locked() finds taken at line 252, fails the ones whose release() raises,
\* running the ones whose holder is a thread that has not ended
Finally ==
    /\ pc = "finally"
    /\ ResetFlags
    /\ \E held \in SUBSET LockIds : \E fails \in SUBSET held :
          \E running \in HeldByRunning(held) :
             lockLog' = ReleaseLocks(held, fails, running)
    /\ teardown' = teardown \o << "flags", "locks" >>
    /\ pc' = "flush"
    /\ UNCHANGED << multipleCtrlC, lastCtrlCTime, conf, now, args, threads, numThread,
                    pending, orphans, runs, active, outcome, cancel, caught, elapsed, cleanupCalls, closeCalls,
                    flushFailed, workCalls, workResult, prompted, answered, log >>

\* Leaves with a "return" in the finally clause, which discards the exception in flight
LeavesSwallowed(p) == "return"

\* what the call leaves with: the exception in flight, if any
Leaves(p) == IF p = "none" THEN "return" ELSE p

\* lines 258-259: flush is called when conf.hashDB is set
FlushStep(configured) == IF configured THEN << "flush" >> ELSE << >>

\* lines 261-262, as a step of the finally clause
CleanupStep(given) == IF given THEN << "cleanup" >> ELSE << >>

\* lines 261-262: cleanupFunction is called when it is given
CleanupCalled(given) == IF given THEN 1 ELSE 0

\* lines 258-262: conf.hashDB.flush(True) returns (or no hashDB is configured),
\* cleanupFunction is called when given, and the call ends
FlushCleanup ==
    /\ pc = "flush"
    /\ cleanupCalls' = cleanupCalls + CleanupCalled(cleanupFunction)
    /\ teardown' = teardown \o FlushStep(hashDB) \o CleanupStep(cleanupFunction)
    /\ lockLog' = [l \in LockIds |-> "none"]
    /\ outcome' = Leaves(pending)
    /\ pending' = "none"
    /\ pc' = "idle"
    /\ active' = active - 1
    /\ UNCHANGED << kbFlags, lastCtrlCTime, conf, now, args, threads, numThread, orphans,
                    runs, closeCalls, cancel, caught, elapsed, flushFailed, workCalls, workResult, prompted, answered, log >>

\* FlushFails with lines 261-262 in a finally clause of their own: cleanupFunction
\* is called although flush raised
FlushFailsThenCleanup ==
    /\ pc = "flush"
    /\ hashDB
    /\ flushFailed' = TRUE
    /\ cleanupCalls' = cleanupCalls + CleanupCalled(cleanupFunction)
    /\ teardown' = teardown \o FlushStep(hashDB) \o CleanupStep(cleanupFunction)
    /\ lockLog' = [l \in LockIds |-> "none"]
    /\ outcome' = "FlushError"
    /\ pending' = "none"
    /\ pc' = "idle"
    /\ active' = active - 1
    /\ UNCHANGED << kbFlags, lastCtrlCTime, conf, now, args, threads, numThread, orphans,
                    runs, cancel, caught, elapsed, closeCalls, workCalls, workResult,
                    prompted, answered, log >>

\* line 259: conf.hashDB.flush(True) raises; the exception leaves runThreads
FlushFails ==
    /\ pc = "flush"
    /\ hashDB
    /\ flushFailed' = TRUE
    /\ teardown' = teardown \o FlushStep(hashDB)
    /\ lockLog' = [l \in LockIds |-> "none"]
    /\ outcome' = "FlushError"
    /\ pending' = "none"
    /\ pc' = "idle"
    /\ active' = active - 1
    /\ UNCHANGED << kbFlags, lastCtrlCTime, conf, now, args, threads, numThread, orphans,
                    runs, cancel, caught, elapsed, cleanupCalls, closeCalls, workCalls, workResult, prompted, answered,
                    log >>

(* ---- time ---- *)

\* the supervisor is where time passes: in the caller, at the prompt, inside
\* threadFunction, or in one of its two waits with a thread still alive; its other
\* steps take no time
Blocked ==
    \/ pc \in {"idle", "prompt", "single"}
    \/ pc = "join" /\ ~JoinLoopEnds
    \/ pc = "cancelwait" /\ ~WaitLoopEnds

\* time.time() is read only at line 204, and only once kb.lastCtrlCTime is set:
\* the clock stands at its first value until the first stamp of line 208
Tick ==
    /\ now < MaxTime
    /\ lastCtrlCTime # 0
    /\ Blocked
    /\ now' = now + 1
    /\ UNCHANGED << kbFlags, lastCtrlCTime, conf, pc, args, threads, numThread, pending,
                    orphans, runs, active, outcome, cancel, caught, elapsed, cleanupCalls, closeCalls, flushFailed, teardown, lockLog,
                    workCalls, workResult, prompted, answered, log >>

(* ---- the specification ---- *)

Next ==
    \/ \E n \in -MaxBelowZero .. MaxNumThreads, cleanup, fwd, choice, ask \in BOOLEAN :
          Call(n, cleanup, fwd, choice, ask)
    \/ \E choice \in Answers : ReadInput(choice)
    \/ Prompt
    \/ \E ex \in Exceptions : PromptRaises(ex)
    \/ SpawnStart
    \/ SpawnFails
    \/ Interrupt
    \/ JoinDone
    \/ WaitDone
    \/ SecondInterrupt
    \/ \E res \in WorkResults : SingleWork(res)
    \/ \E w \in WorkerIds, res \in WorkResults : WorkerEnd(w, res)
    \/ \E res \in WorkResults : OrphanEnd(res)
    \/ Finally
    \/ FlushCleanup
    \/ FlushFails
    \/ Tick

Spec == Init /\ [][Next]_vars

(* ---- the specification with the supervisor's progress ---- *)

\* the finally clause starts with no lock of kb.locks taken: the behaviours of
\* FairSpec are those of Spec in which threadFunction leaves no lock behind
FinallyUnlocked == Finally /\ lockLog' = [l \in LockIds |-> "unlocked"]

FairNext ==
    \/ \E n \in -MaxBelowZero .. MaxNumThreads, cleanup, fwd, choice, ask \in BOOLEAN :
          Call(n, cleanup, fwd, choice, ask)
    \/ \E choice \in Answers : ReadInput(choice)
    \/ Prompt
    \/ \E ex \in Exceptions : PromptRaises(ex)
    \/ SpawnStart
    \/ SpawnFails
    \/ Interrupt
    \/ JoinDone
    \/ WaitDone
    \/ SecondInterrupt
    \/ \E res \in WorkResults : SingleWork(res)
    \/ \E w \in WorkerIds, res \in WorkResults : WorkerEnd(w, res)
    \/ \E res \in WorkResults : OrphanEnd(res)
    \/ FinallyUnlocked
    \/ FlushCleanup
    \/ FlushFails
    \/ Tick

\* the behaviours of Spec in which threadFunction leaves no lock of kb.locks taken
\* when the finally clause starts. lockLog is written by the finally clause and
\* read by no step, so the other variables take the same values as under Spec
UnlockedSpec == Init /\ [][FairNext]_vars

\* the steps the supervisor takes by itself: once it is at one of them nothing it
\* waits for is outside runThreads. Not among them: the return of readInput, the
\* return of threadFunction (on the main thread or in a worker thread), a Ctrl+C,
\* the next call by the caller, the passing of time
SupervisorStep ==
    \/ SpawnStart
    \/ SpawnFails
    \/ JoinDone
    \/ WaitDone
    \/ FinallyUnlocked
    \/ FlushCleanup
    \/ FlushFails

FairSpec == Init /\ [][FairNext]_vars /\ WF_vars(SupervisorStep)

(* ---- properties ---- *)

\* the last call has left runThreads
Left == pc = "idle" /\ runs > 0

\* the call was aborted by a repeated cancellation (line 206 or line 218)
Aborted == cancel \in {"window", "second"}

\* C1: a call made with a cleanup function has called it exactly once when it
\* leaves, whatever the exit path.
C1_CleanupOnceOnEveryExit ==
    (Left /\ cleanupFunction) => cleanupCalls = 1

\* C2 as stated: a call with more than one thread never leaves (returns or
\* raises) while a worker thread it started is alive.
C2_NeverLeavesWhileWorkerAlive ==
    Left => AliveWorkers = {}

\* C2 amended: unless the call is aborted by a repeated cancellation, it does not
\* start the finally clause, and so does not leave, while a worker thread it
\* started is alive.
C2_WaitsUnlessAborted ==
    (pc \in {"finally", "flush", "idle"} /\ ~Aborted) => AliveWorkers = {}

C2_Witness ==
    /\ Left
    /\ ~Aborted
    /\ numThreads > 1
    /\ Cardinality(started) = numThreads
    /\ AliveWorkers = {}

\* C3: with numThreads > 1, kb.multiThreadMode is true while the supervisor
\* starts and waits for its worker threads; it is false once the call has left;
\* and it is false throughout a call whose numThreads is at most 1.
C3_MultiThreadMode ==
    /\ (numThreads > 1 /\ pc \in {"spawn", "join", "cancelwait"}) => multiThreadMode
    /\ pc = "idle" => ~multiThreadMode
    /\ numThreads <= 1 => ~multiThreadMode

C3_Witness ==
    /\ pc = "cancelwait"
    /\ numThreads > 1
    /\ AliveWorkers # {}
    /\ multiThreadMode

\* C4: a call with numThreads = 1 and no prompt starts no thread and calls
\* threadFunction exactly once, on the main thread; when that call raised UserQuit
\* or SkipTarget (and the flush of the finally clause did not raise, see C1) the
\* call returns normally and has logged nothing.
C4_SingleWorker ==
    (runs > 0 /\ numThreads = 1 /\ ~prompted) =>
        /\ started = {}
        /\ workCalls["main"] = 1
        /\ \A c \in Contexts \ {"main"} : workCalls[c] = 0
        /\ (Left /\ workResult \in {"UserQuit", "SkipTarget"} /\ ~flushFailed) =>
                (outcome = "return" /\ log = {})

C4_Witness ==
    /\ Left
    /\ numThreads = 1
    /\ ~prompted
    /\ workResult = "UserQuit"
    /\ outcome = "return"
    /\ workCalls["main"] = 1

\* a cancellation (KeyboardInterrupt) or a fatal condition (sqlite3.Error) was
\* raised in this call: by threadFunction on the main thread, on the supervisor
\* itself, or by threadFunction in a worker thread
CancelOrFatalRaised ==
    \/ workResult \in {"KeyboardInterrupt", "Sqlite"}
    \/ caught \in {"KeyboardInterrupt", "Sqlite"}
    \/ \E w \in WorkerIds : threads[w] = "interrupted"

\* C5: with forwardException true, a call in which a cancellation or a fatal
\* condition was raised (and whose flush did not raise) leaves by raising, not by
\* returning.
C5_ForwardedToCaller ==
    (Left /\ forwardException /\ CancelOrFatalRaised /\ ~flushFailed) => outcome # "return"

\* C6: with forwardException false, a call that took exactly one cancellation (not
\* escalated, no second one during the wait) has waited for every thread, has run
\* the finally clause and returns normally.
C6_SingleCancellationSwallowed ==
    (Left /\ cancel = "first" /\ ~forwardException /\ ~flushFailed) =>
        /\ outcome = "return"
        /\ AliveWorkers = {}
        /\ ~multiThreadMode /\ threadContinue
        /\ cleanupFunction => cleanupCalls = 1

C6_Witness ==
    /\ Left
    /\ cancel = "first"
    /\ ~forwardException
    /\ outcome = "return"
    /\ Cardinality(started) > 1

\* C7: a call aborted by a repeated cancellation, on either path (line 206 or line
\* 218), never returns normally, whatever forwardException is: it raises, and what
\* it raises is the repeated-cancellation exception unless the flush raised first.
C7_RepeatedAlwaysRaised ==
    (Left /\ Aborted) =>
        /\ outcome # "return"
        /\ ~flushFailed =>
              outcome = (IF cancel = "window" THEN "UserQuitMulti" ELSE "ThreadException")

C7_Witness ==
    /\ Left
    /\ cancel = "window"
    /\ ~forwardException
    /\ outcome = "UserQuitMulti"

\* C8: a second Ctrl+C taken during the wait for the threads ends the wait at
\* once: kb.multipleCtrlC is true, SqlmapThreadException is in flight and the
\* supervisor is in the finally clause or beyond, whether or not threads are alive.
C8_SecondSignalAborts ==
    cancel = "second" =>
        /\ multipleCtrlC
        /\ pc \in {"finally", "flush", "idle"}
        /\ pc # "idle" => pending = "ThreadException"
        /\ (pc = "idle" /\ ~flushFailed) => outcome = "ThreadException"

C8_Witness ==
    /\ cancel = "second"
    /\ elapsed < EscalationWindow
    /\ AliveWorkers # {}
    /\ multipleCtrlC
    /\ pending = "ThreadException"

\* C9 as stated: a cancellation taken more than one time unit after the previous
\* one is never escalated, also when it is taken during the wait.
C9_NeverEscalatedWhenApart ==
    (cancel # "none" /\ elapsed > EscalationWindow) => ~Aborted

\* C9 amended: a cancellation that is the first one its call takes, more than one
\* time unit after the previous recorded one, is handled as a first cancellation
\* (kb.multipleCtrlC stays false and its time, the previous recorded time plus the
\* time elapsed, is recorded in kb.lastCtrlCTime); a
\* Ctrl+C taken during the wait is escalated whatever time has passed.
C9_FreshOutsideTheWait ==
    /\ (cancel \in {"first", "window"} /\ elapsed > EscalationWindow) =>
          /\ cancel = "first"
          /\ ~multipleCtrlC
          /\ lastCtrlCTime - elapsed >= 1
    /\ cancel = "second" => multipleCtrlC

C9_Witness ==
    /\ cancel = "first"
    /\ pc = "cancelwait"
    /\ elapsed > EscalationWindow
    /\ lastCtrlCTime = now
    /\ ~multipleCtrlC

\* C10 as stated: the first cancellation a call takes is never escalated on
\* account of a cancellation recorded by an earlier call.
C10_NoEscalationAcrossCalls ==
    cancel # "window"

\* C10 amended: kb.lastCtrlCTime outlives the call that set it (lines 130-134 do
\* not reset it), and the first cancellation a call takes is escalated exactly
\* when an earlier call recorded one less than one time unit before.
C10_EscalatedIffRecent ==
    cancel \in {"first", "window"} =>
        (cancel = "window" <=> (elapsed # -1 /\ elapsed < EscalationWindow))

C10_Witness ==
    /\ cancel = "window"
    /\ runs > 1
    /\ elapsed = 0
    /\ multipleCtrlC

\* the step that starts the finally clause (lines 246-249)
TeardownStep == pc = "finally" /\ pc' = "flush"

\* C11: on every exit path the finally clause leaves kb.multiThreadMode false,
\* kb.threadContinue true and kb.threadException false: no call leaves without
\* having passed the step that sets them, whatever is in flight (a return, a
\* cancellation, an abort with threads alive, an exception of the supervisor).
C11_TeardownResetsFlags ==
    /\ [](Left => (teardown # << >> /\ teardown[1] = "flags"))
    /\ [][TeardownStep => (~multiThreadMode' /\ threadContinue' /\ ~threadException')]_vars

C11_Witness ==
    /\ pc = "flush"
    /\ cancel = "second"
    /\ AliveWorkers # {}
    /\ pending = "ThreadException"
    /\ ~multiThreadMode /\ threadContinue /\ ~threadException

\* C12: on every exit path the steps of the finally clause have each run exactly
\* once and in this order when the call leaves: the release of the locks, then the
\* flush when conf.hashDB is set, then cleanupFunction when it is given.
C12_TeardownOnceInOrder ==
    Left =>
        teardown = << "flags", "locks" >>
                     \o (IF hashDB THEN << "flush" >> ELSE << >>)
                     \o (IF cleanupFunction THEN << "cleanup" >> ELSE << >>)

\* some release() of the loop of lines 251-256 raised
ReleaseFailed == \E l \in LockIds : lockLog[l] = "failed"

\* C13: when the release of a lock raises in the finally clause, the loop has
\* still looked at every lock and called release() on every one that was locked
\* (none is left out after the one that failed); the exception in flight is what
\* it was before the loop; and the flush (when conf.hashDB is set) and
\* cleanupFunction (when given, and the flush did not raise) follow.
C13_ReleaseFailureIgnored ==
    /\ [](pc = "flush" =>
            \A l \in LockIds : lockLog[l] \in {"unlocked", "released", "taken", "failed"})
    /\ [][TeardownStep => pending' = pending]_vars
    /\ [][(pc = "flush" /\ ReleaseFailed /\ pc' = "idle") =>
            /\ hashDB => (\E i \in 1 .. Len(teardown') : teardown'[i] = "flush")
            /\ (cleanupFunction /\ ~flushFailed') => cleanupCalls' = 1]_vars

C13_Witness ==
    /\ pc = "flush"
    /\ lockLog[1] = "failed"
    /\ lockLog[2] = "released"
    /\ cleanupFunction

\* C14: every worker thread whose threadFunction raised something other than
\* KeyboardInterrupt, UserQuit and SkipTarget has an error entry in the log under
\* its name, whatever kb.threadContinue and kb.multipleCtrlC were when it raised.
C14_WorkerFailureAlwaysLogged ==
    \A w \in WorkerIds :
        threads[w] \in {"reported", "dropped"} => << ThreadName(w), "error" >> \in log

\* worker thread w ends in this step because its threadFunction raised an
\* exception that the adapter catches at line 103 and that is not UserQuit/SkipTarget
WorkerFailsStep(w) == threads[w] = "alive" /\ threads'[w] \in {"reported", "dropped"}

\* C15: in a call with numThreads > 1 in which every thread started, no
\* cancellation or supervisor exception occurred, and threadFunction raised (a
\* connection exception or another Exception, not UserQuit/SkipTarget) in exactly
\* one worker thread while it returned in the others: the failure stopped no other
\* thread and left kb.threadContinue as it was, an error entry under the failing
\* thread's name is the only error the log has, cleanupFunction was called once, and the
\* call returns normally. Checked for a call made while no thread of an earlier
\* aborted call is still running (the first call) and whose flush did not raise.
C15_OneWorkerFails ==
    /\ [](\A w \in WorkerIds :
            ( /\ Left /\ runs = 1 /\ numThreads > 1 /\ cancel = "none" /\ caught = "none"
              /\ ~flushFailed
              /\ Cardinality(started) = numThreads
              /\ threads[w] \in {"reported", "dropped"}
              /\ \A v \in started \ {w} : threads[v] = "returned" )
            => /\ outcome = "return"
               /\ { e \in log : e[2] = "error" } = {<< ThreadName(w), "error" >>}
               /\ \A v \in started : workCalls[ThreadName(v)] = 1
               /\ cleanupFunction => cleanupCalls = 1)
    /\ [][\A w \in WorkerIds : WorkerFailsStep(w) =>
            /\ threadContinue' = threadContinue
            /\ \A v \in WorkerIds \ {w} : threads'[v] = threads[v]]_vars

C15_Witness ==
    /\ Left /\ runs = 1 /\ numThreads = 2 /\ cancel = "none" /\ caught = "none"
    /\ threads[0] = "returned"
    /\ threads[1] = "reported"
    /\ << "1", "error" >> \in log
    /\ cleanupCalls = 1
    /\ outcome = "return"

\* C16: a call in which sqlite3.Error was raised, by threadFunction on the main
\* thread or on the supervisor itself, leaves by raising it (unless the flush
\* raised after it).
C16_SqliteAlwaysPropagates ==
    (Left /\ (workResult = "Sqlite" \/ caught = "Sqlite") /\ ~flushFailed) =>
        outcome = "Sqlite"

\* C17: when threadFunction raised KeyboardInterrupt in a worker thread, the
\* supervisor has handled a cancellation (lines 198-221) by the time it starts
\* the finally clause.
C17_WorkerInterruptReachesSupervisor ==
    (pc \in {"finally", "flush", "idle"} /\ \E w \in WorkerIds : threads[w] = "interrupted") =>
        cancel # "none"

\* the step in which the handler of lines 198-211 takes a cancellation that is not
\* escalated and starts the wait of lines 212-214
FirstCancelStep == pc # "cancelwait" /\ pc' = "cancelwait"

\* C19: the step that takes a first (not escalated) cancellation records the time
\* in kb.lastCtrlCTime and ends no thread; while the supervisor then waits,
\* kb.threadContinue is false and kb.threadException is true; and unless a second
\* Ctrl+C arrives during the wait, the finally clause does not start while a
\* thread the call started is alive.
C19_FirstCancellation ==
    /\ [][FirstCancelStep =>
            /\ lastCtrlCTime' = now
            /\ threads' = threads
            /\ orphans' = orphans]_vars
    /\ [](pc = "cancelwait" =>
            /\ cancel = "first"
            /\ ~threadContinue /\ threadException
            /\ lastCtrlCTime # 0 /\ lastCtrlCTime <= now)
    /\ []((cancel = "first" /\ pc \in {"finally", "flush", "idle"}) => AliveWorkers = {})

C19_Witness ==
    /\ pc = "cancelwait"
    /\ cancel = "first"
    /\ Cardinality(AliveWorkers) > 1
    /\ now > lastCtrlCTime
    /\ ~threadContinue /\ threadException

\* the step in which a call enters runThreads
EntryStep == pc = "idle" /\ pc' # "idle"

\* C20: whatever the last call left (kb.multipleCtrlC true after an aborted call,
\* flags set by a thread it abandoned), the step that enters runThreads leaves
\* kb.threadContinue true, kb.threadException false and kb.multipleCtrlC false, with
\* no thread started yet; kb.multiThreadMode is false unless the call has gone on
\* to line 172 to start threads.
C20_EntryReset ==
    [][EntryStep =>
        /\ threadContinue' /\ ~threadException' /\ ~multipleCtrlC'
        /\ started' = {}
        /\ multiThreadMode' => pc' = "spawn"]_vars

C20_Witness ==
    /\ runs = 2
    /\ orphans > 0
    /\ pc = "single"
    /\ ~multipleCtrlC /\ threadContinue /\ ~threadException /\ ~multiThreadMode

\* a call is in progress
Running == pc # "idle"

\* nothing the supervisor waits for is pending: it is not at the prompt or inside
\* threadFunction, and no thread but the main one is alive
WorkEnded == pc \notin {"prompt", "single"} /\ ~ActiveCountAboveOne

\* C18 as stated: every call in progress eventually leaves runThreads through the
\* finally clause, whatever threadFunction and the prompt do.
C18_AlwaysTornDown ==
    Running ~> Left

\* C18 amended: if readInput and every invocation of threadFunction eventually
\* return or raise (again and again there is a moment with no thread alive and the
\* supervisor neither at the prompt nor inside threadFunction), every call in
\* progress eventually leaves runThreads through the finally clause.
C18_TornDownIfWorkEnds ==
    ([]<>WorkEnded) => (Running ~> Left)

C18_Witness ==
    /\ Left
    /\ cancel = "first"
    /\ Cardinality(started) > 1
    /\ teardown # << >>

\* the step in which the prompt loop looks at the answer readInput gave
PromptStep == pc = "prompt" /\ answered # NoAnswer /\ answered' = NoAnswer

\* the number an answer spells, with or without the marker; -1 when it spells none
EnteredValue(a) ==
    CASE a \in {<< "0" >>, << "0", "!" >>} -> 0
      [] a = << "1" >> -> 1
      [] a \in {<< "2" >>, << "2", "!" >>, << "0", "2" >>} -> 2
      [] a = << "1", "0" >> -> 10
      [] OTHER -> -1

\* the answer carries the marker
Marked(a) == a \in {<< "0", "!" >>, << "2", "!" >>}

\* C21: at the prompt, an answer that spells no number is asked again; an answer
\* that spells a number above MAX_NUMBER_OF_THREADS without the marker '!' is
\* refused with a critical log entry and asked again; every other answer (a number
\* within the maximum, or any number with the marker) ends the prompt, and
\* numThreads is then exactly the number entered, the marker stripped.
C21_PromptBoundAndMarker ==
    [][PromptStep =>
        LET v == EnteredValue(answered) IN
        IF v = -1
        THEN pc' = "prompt" /\ numThreads' = numThreads /\ log' = log
        ELSE IF v > MAX_NUMBER_OF_THREADS /\ ~Marked(answered)
        THEN pc' = "prompt" /\ numThreads' = numThreads /\ << "main", "critical" >> \in log'
        ELSE pc' # "prompt" /\ numThreads' = v]_vars

C21_Witness ==
    /\ prompted
    /\ pc = "spawn"
    /\ numThreads = MAX_NUMBER_OF_THREADS + 1
    /\ << "main", "critical" >> \in log

\* C22: once the prompt has ended with an accepted answer, numThreads is at least 1.
C22_PromptedCountPositive ==
    (prompted /\ pc \in {"single", "spawn"}) => numThreads >= 1

C24_QuitAndSkipSwallowed ==
    (Left /\ caught \in {"UserQuit", "SkipTarget"} /\ ~Aborted /\ ~flushFailed) =>
        /\ outcome = "return"
        /\ << "main", "error" >> \notin log

\* the step in which an outer except clause catches something
CatchStep == caught = "none" /\ caught' # "none"

C26_UnexpectedHandled ==
    /\ [][(CatchStep /\ caught' \in {"Other", "SkipTarget"}) =>
            /\ threadException'
            /\ << "main", "error" >> \in log'
            /\ pending' = "none"
            /\ pc' = "finally"]_vars
    /\ [](caught \in {"Other", "SkipTarget"} =>
            /\ cancel = "none"
            /\ pc = "finally" => threadException
            /\ (Left /\ ~flushFailed) => outcome = "return")

C26_Witness ==
    /\ Left
    /\ caught = "Other"
    /\ forwardException
    /\ outcome = "return"
    /\ << "main", "error" >> \in log

\* C27: with conf.hashDB set, conf.hashDB.close() has been called exactly once
\* for every invocation of threadFunction that has ended, on the main thread or in
\* a worker thread, however it ended; it has not been called for one that has not
\* ended, and it is never called when conf.hashDB is not set.
C27_CloseAfterWork ==
    /\ \A w \in WorkerIds :
          closeCalls[ThreadName(w)] = (IF hashDB /\ threads[w] \in EndStates THEN 1 ELSE 0)
    /\ closeCalls["main"] = (IF hashDB /\ workResult # "none" THEN 1 ELSE 0)

C27_Witness ==
    /\ hashDB
    /\ threads[0] = "interrupted"
    /\ threads[1] = "dropped"
    /\ closeCalls["0"] = 1
    /\ closeCalls["1"] = 1

\* C28: no step changes conf.threads or conf.hashDB.
C28_ConfNeverChanges ==
    [][confThreads' = confThreads /\ hashDB' = hashDB]_vars

\* the step in which the synchronous call of threadFunction ends
SingleStep == pc = "single" /\ pc' # "single"

\* C29: however the synchronous call of threadFunction ends (returning, or raising
\* UserQuit, SkipTarget, KeyboardInterrupt, sqlite3.Error, a connection exception
\* or anything else), the supervisor goes straight to the finally clause with
\* nothing in flight: no except clause of the outer try runs, nothing is logged,
\* no flag and no timestamp changes; and the call (whose flush did not raise)
\* returns normally whatever forwardException is.
C29_SingleDiscardsEverything ==
    /\ [][SingleStep =>
            /\ pc' = "finally"
            /\ pending' = "none"
            /\ caught' = "none"
            /\ log' = log
            /\ kbFlags' = kbFlags
            /\ lastCtrlCTime' = lastCtrlCTime]_vars
    /\ []((Left /\ workResult # "none") =>
            /\ caught = "none"
            /\ cancel = "none"
            /\ ~flushFailed => outcome = "return")

C29_Witness ==
    /\ Left
    /\ workResult = "KeyboardInterrupt"
    /\ forwardException
    /\ outcome = "return"
    /\ log = {}

\* a lock was released by the finally clause while the thread holding it runs
LockTaken == \E l \in LockIds : lockLog[l] = "taken"

\* C30 as stated: the finally clause never releases a lock whose holder is a thread
\* that is still running.
C30_NoLockTakenFromRunning ==
    ~LockTaken

\* C30 amended: the finally clause releases every lock that is locked, whoever
\* holds it; it releases one whose holder is still running only when threads
\* abandoned by a repeated-cancellation abort, of this call or of an earlier one,
\* are running when it starts.
C30_LockTakenOnlyAfterAbort ==
    [][(TeardownStep /\ LockTaken') => (Aborted \/ orphans > 0)]_vars

C30_Witness ==
    /\ pc = "flush"
    /\ cancel = "second"
    /\ AliveWorkers # {}
    /\ lockLog[1] = "taken"

\* C31 as stated: once the supervisor has taken a cancellation, no step sets
\* kb.threadContinue back to true while a thread started by that call is alive.
C31_ContinueStaysFalseWhileAlive ==
    [][(cancel # "none" /\ ~threadContinue /\ threadContinue') => AliveWorkers = {}]_vars

\* C31 amended: once the supervisor has taken a cancellation, kb.threadContinue is
\* false until the finally clause starts; the finally clause sets it back to true,
\* and it does so while a thread started by this call is alive only when the call
\* was aborted by a repeated cancellation.
C31_ContinueFalseUntilTeardown ==
    /\ []((cancel # "none" /\ pc \in {"cancelwait", "finally"}) => ~threadContinue)
    /\ [][(TeardownStep /\ cancel # "none") =>
            /\ threadContinue'
            /\ AliveWorkers # {} => Aborted]_vars

C31_Witness ==
    /\ pc = "flush"
    /\ cancel = "window"
    /\ AliveWorkers # {}
    /\ threadContinue

\* the step in which conf.hashDB.flush(True) raises
FlushFailsStep == pc = "flush" /\ flushFailed'

\* C32: when conf.hashDB.flush(True) raises in the finally clause, its exception
\* is what the call leaves with, whatever was in flight; cleanupFunction is not
\* called; lines 246-256 (flags, locks) have run before it and the flags are not
\* touched again.
C32_FlushFailurePropagates ==
    /\ [][FlushFailsStep =>
            /\ outcome' = "FlushError"
            /\ pc' = "idle"
            /\ cleanupCalls' = cleanupCalls
            /\ kbFlags' = kbFlags
            /\ ~multiThreadMode
            /\ teardown = << "flags", "locks" >>
            /\ \A l \in LockIds : lockLog[l] # "none"]_vars
    /\ []((Left /\ flushFailed) =>
            /\ outcome = "FlushError"
            /\ cleanupCalls = 0
            /\ teardown = << "flags", "locks", "flush" >>)

C32_Witness ==
    /\ Left
    /\ flushFailed
    /\ cleanupFunction
    /\ forwardException
    /\ cancel = "first"
    /\ caught = "KeyboardInterrupt"
    /\ outcome = "FlushError"

\* the step in which thread.start() raises
SpawnFailsStep ==
    pc = "spawn" /\ pc' = "join" /\ numThread' = numThread /\ numThread < numThreads

\* thread.start() raised in this call and no cancellation followed
SpawnFailed ==
    /\ numThreads > 1
    /\ numThread < numThreads
    /\ pc # "spawn"
    /\ cancel = "none"
    /\ caught = "none"

\* C33: when thread.start() raises, a critical entry is logged, nothing is in
\* flight and no thread is started in that step or later; the threads started are
\* those numbered below numThread, fewer than numThreads, and each calls
\* threadFunction once; the finally clause starts only when none of them is alive,
\* and the call (not cancelled, its flush not raising) returns normally.
C33_SpawnFailureStopsStarting ==
    /\ [][SpawnFailsStep =>
            /\ << "main", "critical" >> \in log'
            /\ pending' = "none"
            /\ caught' = "none"
            /\ threads' = threads]_vars
    /\ [](SpawnFailed =>
            /\ << "main", "critical" >> \in log
            /\ started = 0 .. (numThread - 1)
            /\ Cardinality(started) < numThreads
            /\ \A w \in WorkerIds : workCalls[ThreadName(w)] = (IF w \in started THEN 1 ELSE 0)
            /\ workCalls["main"] = 0
            /\ pc \in {"finally", "flush", "idle"} => AliveWorkers = {}
            /\ (Left /\ ~flushFailed) => outcome = "return")

C33_Witness ==
    /\ Left
    /\ SpawnFailed
    /\ numThread = 1
    /\ threads[0] = "returned"
    /\ outcome = "return"
    /\ teardown # << >>

\* C34: in a call on the multi-thread path in which every thread.start() succeeded,
\* threadFunction has been called exactly once in each of the threads named "0" ..
\* str(numThreads - 1) and in no other context, the main thread included.
C34_OneCallPerWorker ==
    (numThreads > 1 /\ numThread = numThreads) =>
        \A c \in Contexts :
            workCalls[c] =
                (IF c \in { ThreadName(w) : w \in 0 .. (numThreads - 1) } THEN 1 ELSE 0)

C34_Witness ==
    /\ Left
    /\ prompted
    /\ numThreads = 2
    /\ numThread = 2
    /\ workCalls["0"] = 1
    /\ workCalls["1"] = 1
    /\ workCalls["main"] = 0

\* C35: kb.lastCtrlCTime changes only in the step in which the supervisor takes a
\* cancellation that the window test of line 204 does not escalate, and then to
\* the current time, which is not before the old value; every other step (entry,
\* finally clause, escalated cancellation, Ctrl+C during the wait) leaves it alone.
C35_TimestampOnlyOnFirstCancel ==
    [][lastCtrlCTime' # lastCtrlCTime =>
        /\ FirstCancelStep
        /\ cancel' = "first"
        /\ lastCtrlCTime' = now
        /\ lastCtrlCTime' > lastCtrlCTime]_vars

C35_Witness ==
    /\ runs = 2
    /\ pc = "cancelwait"
    /\ cancel = "first"
    /\ elapsed >= 1
    /\ lastCtrlCTime = now

\* C36: kb.multipleCtrlC is left alone by the finally clause and is cleared only
\* by the entry reset of a call; after a call has left it is true exactly when that
\* call was aborted by a repeated cancellation, and the call then raised the
\* exception of line 206 or line 218 (unless its flush raised).
C36_MultipleCtrlCOutlivesTeardown ==
    /\ [][TeardownStep => multipleCtrlC' = multipleCtrlC]_vars
    /\ [][(multipleCtrlC /\ ~multipleCtrlC') => EntryStep]_vars
    /\ [](Left => (multipleCtrlC <=> Aborted))
    /\ []((Left /\ multipleCtrlC /\ ~flushFailed) =>
            outcome \in {"UserQuitMulti", "ThreadException"})

C36_Witness ==
    /\ Left
    /\ multipleCtrlC
    /\ outcome = "ThreadException"
    /\ ~threadException
    /\ threadContinue

\* C37: with numThreads of 0 or below, passed by the caller or set by the prompt,
\* the call takes the synchronous path: no thread is started, kb.multiThreadMode is
\* false, the supervisor is never in the start loop or one of the waits, and
\* threadFunction is called exactly once, on the main thread.
C37_ZeroTakesSynchronousPath ==
    (numThreads <= 0) =>
        /\ started = {}
        /\ ~multiThreadMode
        /\ pc \in {"single", "finally", "flush", "idle"}
        /\ cancel = "none"
        /\ \A c \in Contexts : workCalls[c] = (IF c = "main" THEN 1 ELSE 0)

C37_Witness ==
    /\ Left
    /\ prompted
    /\ numThreads = 0
    /\ workResult = "ok"
    /\ workCalls["main"] = 1
    /\ outcome = "return"

====
